---------------------------- MODULE Spec2Model ----------------------------
(***************************************************************************)
(* Sharded quantized embedding collection (torchrec/distributed/           *)
(* quant_embedding.py): construction, lazy creation of the input and       *)
(* output distributors, and the input_dist -> compute -> output_dist       *)
(* pipeline that reassembles per-feature jagged results.                   *)
(***************************************************************************)
EXTENDS Integers, Sequences, FiniteSets, TLC

(***************************************************************************)
(* Configuration of the tables, as in the repository's sharding test.      *)
(***************************************************************************)
WorldSize == 2
NumEmbeddings == 4

TableNames == <<"table_0", "table_1">>
FeatureNames == <<"feature_0", "feature_1">>
NumTables == Len(TableNames)
Ranks == 0 .. (WorldSize - 1)

(***************************************************************************)
(* Bounds of the model.                                                    *)
(***************************************************************************)
MaxValues == 2
MaxInputDists == 4
Examples == {1, 2}

(***************************************************************************)
(* State: the sharder, the constructor's arguments, the object (self),     *)
(* the batches the caller holds, and the most recent call with what it was *)
(* given and what it returned or raised.                                   *)
(***************************************************************************)
VARIABLES sharder, module, table_name_to_parameter_sharding, fused_params, self, inputs, call

TABLE_WISE == "table_wise"
ROW_WISE == "row_wise"
COLUMN_WISE == "column_wise"

(***************************************************************************)
(* Sequence helpers.                                                       *)
(***************************************************************************)
RECURSIVE SumSeq(_)
SumSeq(s) == IF s = <<>> THEN 0 ELSE Head(s) + SumSeq(Tail(s))

RECURSIVE Flatten(_)
Flatten(ss) == IF ss = <<>> THEN <<>> ELSE Head(ss) \o Flatten(Tail(ss))

Range(s) == {s[i] : i \in DOMAIN s}

Take(s, n) == SubSeq(s, 1, n)

Min(a, b) == IF a < b THEN a ELSE b

Positions(n) == [p \in 1 .. n |-> p]

\* list.index(x): 0-based position of the first occurrence
IndexOf(s, x) == (CHOOSE i \in DOMAIN s : s[i] = x /\ \A j \in 1 .. (i - 1) : s[j] # x) - 1

\* an Optional[Tensor]
None == [some |-> FALSE, val |-> <<>>]
Some(v) == [some |-> TRUE, val |-> v]

(***************************************************************************)
(* KeyedJaggedTensor: keys, stride, lengths (key-major, one per key and    *)
(* example) and the flat values.                                           *)
(***************************************************************************)
KJT(keys, stride, lengths, values) ==
    [keys |-> keys, stride |-> stride, lengths |-> lengths, values |-> values]

KeyLengths(kjt, i) == SubSeq(kjt.lengths, (i - 1) * kjt.stride + 1, i * kjt.stride)

length_per_key(kjt) == [i \in 1 .. Len(kjt.keys) |-> SumSeq(KeyLengths(kjt, i))]

\* torch.split(t, sizes): the pieces, given that the sizes sum to Len(t)
TorchSplit(t, sizes) ==
    [i \in 1 .. Len(sizes) |->
        SubSeq(t, SumSeq(Take(sizes, i - 1)) + 1, SumSeq(Take(sizes, i)))]

\* the values of the i-th key
KeyValues(kjt, i) ==
    SubSeq(kjt.values,
           SumSeq(Take(kjt.lengths, (i - 1) * kjt.stride)) + 1,
           SumSeq(Take(kjt.lengths, i * kjt.stride)))

\* kjt.permute(indices), indices 0-based
PermuteOk(kjt, order) == \A j \in DOMAIN order : order[j] + 1 \in DOMAIN kjt.keys

permute(kjt, order) ==
    KJT([j \in DOMAIN order |-> kjt.keys[order[j] + 1]],
        kjt.stride,
        Flatten([j \in DOMAIN order |-> KeyLengths(kjt, order[j] + 1)]),
        Flatten([j \in DOMAIN order |-> KeyValues(kjt, order[j] + 1)]))

\* kjt.split(segments): contiguous groups of keys
SplitOk(kjt, segments) == SumSeq(segments) <= Len(kjt.keys)

KeysFrom(kjt, start, count) == permute(kjt, [j \in 1 .. count |-> start + j - 1])

split(kjt, segments) ==
    [s \in DOMAIN segments |-> KeysFrom(kjt, SumSeq(Take(segments, s - 1)), segments[s])]

(***************************************************************************)
(* The plan (table_name_to_parameter_sharding) and the sharding strategies *)
(* built from it, one per sharding type.                                   *)
(***************************************************************************)
TableIdx == [t \in 1 .. NumTables |-> t]

ShardingOptions ==
    {[sharding_type |-> TABLE_WISE, rank |-> r] : r \in Ranks}
        \cup {[sharding_type |-> ROW_WISE, rank |-> 0],
              [sharding_type |-> COLUMN_WISE, rank |-> 0]}

Plans == [1 .. NumTables -> ShardingOptions]

\* the sharding types of a plan, in order of first appearance
ShardingTypes(plan) ==
    LET First(t) == \A u \in 1 .. (t - 1) : plan[u].sharding_type # plan[t].sharding_type
    IN [k \in DOMAIN SelectSeq(TableIdx, First) |->
            plan[SelectSeq(TableIdx, First)[k]].sharding_type]

ShardingInfo(plan, type, tabs) ==
    [sharding_type |-> type,
     tables |-> tabs,
     rank_of |-> [j \in DOMAIN tabs |-> plan[tabs[j]].rank]]

TablesOfType(plan, type) ==
    LET OfType(t) == plan[t].sharding_type = type
    IN SelectSeq(TableIdx, OfType)

InfosOfTypes(plan, types) ==
    [k \in DOMAIN types |-> ShardingInfo(plan, types[k], TablesOfType(plan, types[k]))]

\* the tables of each sharding type
create_sharding_infos_by_sharding(plan) == InfosOfTypes(plan, ShardingTypes(plan))

Pick(s, idx) == [k \in DOMAIN idx |-> s[idx[k]]]

\* the tables a rank serves: its own under table-wise, every table under row-wise
RankTables(sh, r) ==
    IF sh.sharding_type = TABLE_WISE
    THEN LET OnRank(j) == sh.rank_of[j] = r
         IN Pick(sh.tables, SelectSeq(Positions(Len(sh.tables)), OnRank))
    ELSE sh.tables

NamesOf(tabs) == [j \in DOMAIN tabs |-> FeatureNames[tabs[j]]]

features_per_rank(sh) == [k \in 1 .. WorldSize |-> Len(RankTables(sh, k - 1))]

embedding_names_per_rank(sh) == [k \in 1 .. WorldSize |-> NamesOf(RankTables(sh, k - 1))]

feature_names(sh) ==
    IF sh.sharding_type = TABLE_WISE
    THEN Flatten(embedding_names_per_rank(sh))
    ELSE NamesOf(sh.tables)

(***************************************************************************)
(* Input distributors.  Table-wise: the keys of each rank.  Row-wise: the  *)
(* values bucketized by row block, ids made local to the block, and the    *)
(* permutation that sends each original position to its place in the       *)
(* rank-major layout.                                                      *)
(***************************************************************************)
BlockSize == (NumEmbeddings + WorldSize - 1) \div WorldSize

Bucket(v) == v \div BlockSize

\* the flat positions of slot q (a key and an example) whose id falls in bucket b
SlotBucket(kjt, q, b) ==
    LET InB(p) == Bucket(kjt.values[p]) = b
    IN SelectSeq([j \in 1 .. kjt.lengths[q] |-> SumSeq(Take(kjt.lengths, q - 1)) + j], InB)

LocalIds(kjt, kept, b) == [j \in DOMAIN kept |-> kjt.values[kept[j]] - b * BlockSize]

BucketKJT(kjt, b) ==
    KJT(kjt.keys,
        kjt.stride,
        [q \in DOMAIN kjt.lengths |-> Len(SlotBucket(kjt, q, b))],
        LocalIds(kjt, Flatten([q \in DOMAIN kjt.lengths |-> SlotBucket(kjt, q, b)]), b))

unbucketize_permute(kjt) ==
    [p \in DOMAIN kjt.values |->
        Cardinality({x \in DOMAIN kjt.values :
                        Bucket(kjt.values[x]) < Bucket(kjt.values[p])})
        + Cardinality({x \in 1 .. (p - 1) :
                        Bucket(kjt.values[x]) = Bucket(kjt.values[p])})]

TwSparseFeaturesDist(sh, features) == split(features, features_per_rank(sh))

RwSparseFeaturesDist(sh, features) == [k \in 1 .. WorldSize |-> BucketKJT(features, k - 1)]

create_input_dist(sh) == [rw |-> sh.sharding_type = ROW_WISE, sharding |-> sh]

input_dist_forward(dist, features) ==
    IF dist.rw THEN RwSparseFeaturesDist(dist.sharding, features)
    ELSE TwSparseFeaturesDist(dist.sharding, features)

(***************************************************************************)
(* Lookup: one tensor of rows per rank.  The i-th key of a rank's features *)
(* is looked up in the i-th table the rank serves; under row-wise the      *)
(* rank holds the rows of its block.                                       *)
(***************************************************************************)
Weight(t, r) == [table |-> TableNames[t], row |-> r]

LookupOk(sh, features) ==
    /\ Len(features) = WorldSize
    /\ \A k \in 1 .. WorldSize : Len(features[k].keys) = Len(RankTables(sh, k - 1))

LookupKey(t, base, ids) == [j \in DOMAIN ids |-> Weight(t, base + ids[j])]

LookupRank(sh, r, kjt) ==
    Flatten([i \in DOMAIN kjt.keys |->
        LookupKey(RankTables(sh, r)[i],
                  IF sh.sharding_type = ROW_WISE THEN r * BlockSize ELSE 0,
                  KeyValues(kjt, i))])

lookup_forward(sh, features) == [k \in DOMAIN features |-> LookupRank(sh, k - 1, features[k])]

\* moves the per-rank tensors to the output device
output_dist_forward(embeddings) == embeddings

(***************************************************************************)
(* Reassembly of the per-feature results (a dict from key to JaggedTensor).*)
(* A call either returns (err = "none") or raises the named error.         *)
(***************************************************************************)
JaggedTensor(lengths, values, weights) ==
    [lengths |-> lengths, values |-> values, weights |-> weights]

EmptyDict == <<>>

\* what a reassembly returns or raises; used lists, per strategy reassembled,
\* the unbucketize permutation it was reassembled with (None: table-wise path)
Ok(d) == [err |-> "none", dict |-> d, used |-> <<>>]
Raise(e) == [err |-> e, dict |-> EmptyDict, used |-> <<>>]

\* a variant that gives every key the lengths of the rank's first key
TwEntryFirstLengths(features_i, i, embeddings_list, values_list, need_indices) ==
    JaggedTensor(KeyLengths(features_i, 1),
                 embeddings_list[i],
                 IF need_indices THEN Some(values_list[i]) ELSE None)

\* ret[key] for the i-th key of features_i (lines 121-133)
TwEntry(features_i, i, embeddings_list, values_list, need_indices) ==
    JaggedTensor(KeyLengths(features_i, i),
                 embeddings_list[i],
                 IF need_indices THEN Some(values_list[i]) ELSE None)

TwEntries(features_i, embeddings_list, values_list, need_indices) ==
    [key \in Range(features_i.keys) |->
        TwEntry(features_i, IndexOf(features_i.keys, key) + 1,
                embeddings_list, values_list, need_indices)]

\* the entries one rank contributes under table-wise sharding (lines 109-133)
TwRankDict(embeddings_i, features_i, lpk, need_indices) ==
    TwEntries(features_i, TorchSplit(embeddings_i, lpk),
              TorchSplit(features_i.values, lpk), need_indices)

TwStep(prev, embeddings, features, need_indices, n) ==
    IF prev.err # "none" THEN prev
    ELSE IF n > Len(features) THEN Raise("IndexError")
    ELSE IF SumSeq(length_per_key(features[n])) # Len(embeddings[n])
         THEN Raise("RuntimeError")
    ELSE Ok(TwRankDict(embeddings[n], features[n], length_per_key(features[n]),
                       need_indices) @@ prev.dict)

RECURSIVE TwUpTo(_, _, _, _)
TwUpTo(embeddings, features, need_indices, n) ==
    IF n = 0 THEN Ok(EmptyDict)
    ELSE TwStep(TwUpTo(embeddings, features, need_indices, n - 1),
                embeddings, features, need_indices, n)

construct_jagged_tensors_tw(embeddings, features, need_indices) ==
    TwUpTo(embeddings, features, need_indices, Len(embeddings))

\* torch.concat(embeddings).index_select(0, unbucketize_tensor)
\* a variant that leaves the concatenation in its rank-major order
ConcatOnly(cat, unbucketize_tensor) == cat

IndexSelect(cat, unbucketize_tensor) ==
    [j \in DOMAIN unbucketize_tensor |-> cat[unbucketize_tensor[j] + 1]]

\* a variant that never attaches the ids
RwEntryNoWeights(features_before_input_dist, i, embs_split_per_key, values_list, need_indices) ==
    JaggedTensor(KeyLengths(features_before_input_dist, i), embs_split_per_key[i], None)

RwEntry(features_before_input_dist, i, embs_split_per_key, values_list, need_indices) ==
    JaggedTensor(KeyLengths(features_before_input_dist, i),
                 embs_split_per_key[i],
                 IF need_indices THEN Some(values_list[i]) ELSE None)

RwEntries(features_before_input_dist, embs_split_per_key, values_list, need_indices) ==
    [key \in Range(features_before_input_dist.keys) |->
        RwEntry(features_before_input_dist,
                IndexOf(features_before_input_dist.keys, key) + 1,
                embs_split_per_key, values_list, need_indices)]

RwBuild(cat, features_before_input_dist, lpk, need_indices, unbucketize_tensor) ==
    IF \E j \in DOMAIN unbucketize_tensor : unbucketize_tensor[j] >= Len(cat)
    THEN Raise("IndexError")
    ELSE IF SumSeq(lpk) # Len(unbucketize_tensor) THEN Raise("RuntimeError")
    ELSE Ok(RwEntries(features_before_input_dist,
                      TorchSplit(IndexSelect(cat, unbucketize_tensor), lpk),
                      TorchSplit(features_before_input_dist.values, lpk),
                      need_indices))

construct_jagged_tensors_rw(embeddings, features_before_input_dist, need_indices, unbucketize_tensor) ==
    RwBuild(Flatten(embeddings), features_before_input_dist,
            length_per_key(features_before_input_dist), need_indices, unbucketize_tensor)

ConstructedWith(r, unbucketize_tensor) == [r EXCEPT !.used = <<unbucketize_tensor>>]

construct_jagged_tensors(embeddings, features, names_per_rank, features_before_input_dist, need_indices, unbucketize_tensor) ==
    ConstructedWith(
        IF unbucketize_tensor.some
        THEN construct_jagged_tensors_rw(embeddings, features_before_input_dist,
                                         need_indices, unbucketize_tensor.val)
        ELSE construct_jagged_tensors_tw(embeddings, features, need_indices),
        unbucketize_tensor)

\* jt_dict.update(...)
JtStep(prev, one) ==
    IF prev.err # "none" THEN prev
    ELSE IF one.err # "none" THEN [one EXCEPT !.used = prev.used \o @]
    ELSE [Ok(one.dict @@ prev.dict) EXCEPT !.used = prev.used \o one.used]

\* lines 223-225: unbucketize_tensors[unbucketize_tensor_idx], None for -1
SelectedTensor(unbucketize_tensors, unbucketize_tensor_idx) ==
    IF unbucketize_tensor_idx # -1
    THEN Some(unbucketize_tensors[unbucketize_tensor_idx + 1])
    ELSE None

RECURSIVE JtDictUpTo(_, _, _, _, _, _, _, _)
JtDictUpTo(emb_per_sharding, features_per_sharding, names_per_rank_per_sharding, need_indices, fbid_per_sharding, unbucketize_tensors, idxs_per_sharding, n) ==
    IF n = 0 THEN Ok(EmptyDict)
    ELSE JtStep(JtDictUpTo(emb_per_sharding, features_per_sharding,
                           names_per_rank_per_sharding, need_indices, fbid_per_sharding,
                           unbucketize_tensors, idxs_per_sharding, n - 1),
                construct_jagged_tensors(
                    emb_per_sharding[n], features_per_sharding[n],
                    names_per_rank_per_sharding[n], fbid_per_sharding[n], need_indices,
                    SelectedTensor(unbucketize_tensors, idxs_per_sharding[n])))

output_jt_dict(emb_per_sharding, features_per_sharding, names_per_rank_per_sharding, need_indices, fbid_per_sharding, unbucketize_tensors, idxs_per_sharding) ==
    JtDictUpTo(emb_per_sharding, features_per_sharding, names_per_rank_per_sharding,
               need_indices, fbid_per_sharding, unbucketize_tensors, idxs_per_sharding,
               Min(Len(emb_per_sharding),
                   Min(Len(features_per_sharding),
                       Min(Len(names_per_rank_per_sharding),
                           Min(Len(idxs_per_sharding), Len(fbid_per_sharding))))))

(***************************************************************************)
(* ShardedQuantEmbeddingCollection.  The object is the record self; a      *)
(* method is an operator from the object (and its arguments) to the object *)
(* it leaves and what it returns or raises.                                *)
(***************************************************************************)
Unconstructed ==
    [state |-> "unconstructed",
     init_error |-> "none",
     sharding_type_to_sharding |-> <<>>,
     embedding_names_per_rank_per_sharding |-> <<>>,
     input_dists |-> <<>>,
     lookups |-> <<>>,
     output_dists |-> <<>>,
     feature_splits |-> <<>>,
     features_order |-> <<>>,
     has_uninitialized_input_dist |-> TRUE,
     has_uninitialized_output_dist |-> TRUE,
     need_indices |-> FALSE,
     embeddings |-> {}]

\* a variant that builds a strategy for any sharding type
create_any_embedding_sharding(info) == [err |-> "none", sharding |-> info]

create_infer_embedding_sharding(info) ==
    IF info.sharding_type = TABLE_WISE THEN [err |-> "none", sharding |-> info]
    ELSE IF info.sharding_type = ROW_WISE THEN [err |-> "none", sharding |-> info]
    ELSE [err |-> "ValueError", sharding |-> info]

\* _create_lookups(fused_params, device)
create_lookups(shardings) == shardings

\* lines 273-297: the fields set once the strategies exist
InitBuilt(mod, shardings) ==
    [Unconstructed EXCEPT
        !.sharding_type_to_sharding = shardings,
        !.embedding_names_per_rank_per_sharding =
            [k \in DOMAIN shardings |-> embedding_names_per_rank(shardings[k])],
        !.lookups = create_lookups(shardings),
        !.need_indices = mod.need_indices]

\* a variant that registers the tables without the table-wise assertion
InitStateUnchecked(built, params) ==
    [built EXCEPT !.state = "constructed", !.embeddings = Range(TableNames)]

\* lines 309-343: the state dict, per quant_state_dict_split_scale_bias
InitState(built, params) ==
    IF params.quant_state_dict_split_scale_bias
    THEN [built EXCEPT !.state = "constructed", !.embeddings = Range(TableNames)]
    ELSE IF \E k \in DOMAIN built.sharding_type_to_sharding :
                built.sharding_type_to_sharding[k].sharding_type # TABLE_WISE
    THEN [built EXCEPT !.state = "failed", !.init_error = "AssertionError"]
    ELSE [built EXCEPT !.state = "constructed", !.embeddings = Range(TableNames)]

InitWith(mod, made, params) ==
    IF \E k \in DOMAIN made : made[k].err # "none"
    THEN [Unconstructed EXCEPT !.state = "failed", !.init_error = "ValueError"]
    ELSE InitState(InitBuilt(mod, [k \in DOMAIN made |-> made[k].sharding]), params)

MakeShardings(infos) == [k \in DOMAIN infos |-> create_infer_embedding_sharding(infos[k])]

\* __init__(module, table_name_to_parameter_sharding, env, fused_params, device)
init(mod, plan, params) ==
    InitWith(mod,
             MakeShardings(create_sharding_infos_by_sharding(plan)),
             params)

\* the names of all strategies' features, in strategy order
AllFeatureNames(shardings) ==
    Flatten([k \in DOMAIN shardings |-> feature_names(shardings[k])])

\* how many of the names are found before list.index raises
FoundBefore(names, input_feature_names) ==
    IF \A j \in DOMAIN names : names[j] \in Range(input_feature_names)
    THEN Len(names)
    ELSE (CHOOSE j \in DOMAIN names :
            /\ names[j] \notin Range(input_feature_names)
            /\ \A x \in 1 .. (j - 1) : names[x] \in Range(input_feature_names)) - 1

\* lines 359-366: the positions of the names in the input, [] when in order
FeaturesOrder(names, input_feature_names, found) ==
    IF found = Len(names)
          /\ \A j \in DOMAIN names : IndexOf(input_feature_names, names[j]) = j - 1
    THEN <<>>
    ELSE [j \in 1 .. found |-> IndexOf(input_feature_names, names[j])]

CreateInputDistWith(obj, shardings, names, input_feature_names, found) ==
    [self |-> [obj EXCEPT
                !.input_dists = @ \o [k \in DOMAIN shardings |-> create_input_dist(shardings[k])],
                !.feature_splits = [k \in DOMAIN shardings |-> Len(feature_names(shardings[k]))],
                !.features_order = FeaturesOrder(names, input_feature_names, found)],
     err |-> IF found = Len(names) THEN "none" ELSE "ValueError"]

\* _create_input_dist(input_feature_names, device, input_dist_device)
create_input_dist_all(obj, input_feature_names) ==
    CreateInputDistWith(obj, obj.sharding_type_to_sharding,
                        AllFeatureNames(obj.sharding_type_to_sharding),
                        input_feature_names,
                        FoundBefore(AllFeatureNames(obj.sharding_type_to_sharding),
                                    input_feature_names))

\* _create_output_dist(device)
create_output_dist_all(obj) ==
    [obj EXCEPT !.output_dists = @ \o obj.sharding_type_to_sharding]

\* a variant that hands out the context of the call before
create_context_kept == call.ctx

create_context == <<>>

InferSequenceShardingContext(features, features_before_input_dist, unbucketize_permute_tensor) ==
    [features |-> features,
     features_before_input_dist |-> features_before_input_dist,
     unbucketize_permute_tensor |-> unbucketize_permute_tensor]

\* lines 420-431: the sharding context appended for the i-th input distributor
ShardingContextOf(input_dist_i, features_i, features) ==
    InferSequenceShardingContext(
        input_dist_forward(input_dist_i, features_i),
        features,
        IF input_dist_i.rw THEN Some(unbucketize_permute(features_i)) ELSE None)

InputDistRaise(obj, ctx, e) == [self |-> obj, ctx |-> ctx, ret |-> <<>>, err |-> e]

\* lines 419-432
InputDistLoop(obj, ctx, contexts, short) ==
    IF short THEN InputDistRaise(obj, ctx \o contexts, "IndexError")
    ELSE [self |-> obj, ctx |-> ctx \o contexts,
          ret |-> [i \in DOMAIN contexts |-> contexts[i].features], err |-> "none"]

InputDistSplit(obj, ctx, features, features_by_sharding) ==
    InputDistLoop(obj, ctx,
        [i \in 1 .. Min(Len(obj.input_dists), Len(features_by_sharding)) |->
            ShardingContextOf(obj.input_dists[i], features_by_sharding[i], features)],
        Len(obj.input_dists) > Len(features_by_sharding))

\* lines 415-417
InputDistPermuted(obj, ctx, features) ==
    IF ~SplitOk(features, obj.feature_splits) THEN InputDistRaise(obj, ctx, "IndexError")
    ELSE InputDistSplit(obj, ctx, features, split(features, obj.feature_splits))

\* lines 410-414
InputDistReady(obj, ctx, features) ==
    IF obj.features_order = <<>> THEN InputDistPermuted(obj, ctx, features)
    ELSE IF ~PermuteOk(features, obj.features_order)
    THEN InputDistRaise(obj, ctx, "IndexError")
    ELSE InputDistPermuted(obj, ctx, permute(features, obj.features_order))

\* lines 404-406
EnsureOutputDist(obj) ==
    IF obj.has_uninitialized_output_dist
    THEN [create_output_dist_all(obj) EXCEPT !.has_uninitialized_output_dist = FALSE]
    ELSE obj

\* a variant that creates the input distributors on every call
CreateInputDistAlways(obj, features) == create_input_dist_all(obj, features.keys)

\* lines 397-403
EnsureInputDist(obj, features) ==
    IF obj.has_uninitialized_input_dist
    THEN create_input_dist_all(obj, features.keys)
    ELSE [self |-> obj, err |-> "none"]

InputDistCreated(created, ctx, features) ==
    IF created.err # "none" THEN InputDistRaise(created.self, ctx, created.err)
    ELSE InputDistReady(
            EnsureOutputDist([created.self EXCEPT !.has_uninitialized_input_dist = FALSE]),
            ctx, features)

\* input_dist(ctx, features)
input_dist(obj, ctx, features) ==
    InputDistCreated(EnsureInputDist(obj, features), ctx, features)

\* compute(ctx, dist_input)
compute(obj, ctx, dist_input) ==
    IF \E i \in 1 .. Min(Len(obj.lookups), Len(dist_input)) :
            ~LookupOk(obj.lookups[i], dist_input[i])
    THEN [ret |-> <<>>, err |-> "RuntimeError"]
    ELSE [ret |-> [i \in 1 .. Min(Len(obj.lookups), Len(dist_input)) |->
                      lookup_forward(obj.lookups[i], dist_input[i])],
          err |-> "none"]

\* a variant that appends len(unbucketize_tensors) - 1 for every strategy
UnbucketizeIdxOfLast(ctx, i) ==
    Cardinality({j \in 1 .. i : ctx[j].unbucketize_permute_tensor.some}) - 1

\* lines 467-475: -1, or the position among the tensors collected so far
UnbucketizeIdx(ctx, i) ==
    IF ~ctx[i].unbucketize_permute_tensor.some THEN -1
    ELSE Cardinality({j \in 1 .. i : ctx[j].unbucketize_permute_tensor.some}) - 1

UnbucketizeTensors(ctx, n) ==
    LET HasTensor(i) == ctx[i].unbucketize_permute_tensor.some
    IN Pick([i \in 1 .. n |-> ctx[i].unbucketize_permute_tensor.val],
            SelectSeq(Positions(n), HasTensor))

\* lines 452-489, over the n triples the zip yields
OutputDistZip(obj, ctx, output, n) ==
    output_jt_dict(
        [i \in 1 .. n |-> output_dist_forward(output[i])],
        [i \in 1 .. n |-> ctx[i].features],
        obj.embedding_names_per_rank_per_sharding,
        obj.need_indices,
        [i \in 1 .. n |-> ctx[i].features_before_input_dist],
        UnbucketizeTensors(ctx, n),
        [i \in 1 .. n |-> UnbucketizeIdx(ctx, i)])

\* output_dist(ctx, output)
output_dist(obj, ctx, output) ==
    OutputDistZip(obj, ctx, output, Min(Len(obj.output_dists), Min(Len(output), Len(ctx))))

ComputedThenOutputDist(obj, ctx, computed) ==
    IF computed.err # "none" THEN Raise(computed.err)
    ELSE output_dist(obj, ctx, computed.ret)

\* compute_and_output_dist(ctx, input)
compute_and_output_dist(obj, ctx, input) ==
    ComputedThenOutputDist(obj, ctx, compute(obj, ctx, input))

ForwardResult(ctx, dist, res) ==
    [self |-> dist.self, ctx_in |-> ctx, ctx |-> dist.ctx, dist_err |-> dist.err,
     err |-> res.err, dict |-> res.dict, used |-> res.used]

ForwardDist(ctx, dist) ==
    IF dist.err # "none" THEN ForwardResult(ctx, dist, Raise(dist.err))
    ELSE ForwardResult(ctx, dist, compute_and_output_dist(dist.self, dist.ctx, dist.ret))

ForwardWith(obj, ctx, features) == ForwardDist(ctx, input_dist(obj, ctx, features))

\* forward(features)
forward(obj, features) == ForwardWith(obj, create_context, features)

\* a variant that creates the output distributors on every copy
copy_unguarded(obj) ==
    [create_output_dist_all(obj) EXCEPT !.has_uninitialized_output_dist = FALSE]

\* copy(device)
copy(obj) ==
    IF obj.has_uninitialized_output_dist
    THEN [create_output_dist_all(obj) EXCEPT !.has_uninitialized_output_dist = FALSE]
    ELSE obj

(***************************************************************************)
(* QuantEmbeddingCollectionSharder.  A fused_params dict is a record of    *)
(* its entries, "absent" for a key it does not hold: the two flags, the    *)
(* output dtype and any other entry.                                       *)
(***************************************************************************)
Flags == {"True", "False"}

DTypes == {"fp32", "fp16"}

EmptyParams ==
    [split_scale_bias |-> "absent", register_tbe |-> "absent",
     output_dtype |-> "absent", other |-> "absent"]

\* bool(fused_params): neither None nor empty
Truthy(fp) == fp.some /\ fp.val # EmptyParams

\* lines 533-543: the entries shard writes into the dict it works on
Filled(fp, mod) ==
    [fp EXCEPT
        !.output_dtype = mod.output_dtype,
        !.split_scale_bias = IF @ = "absent" THEN mod.split_scale_bias ELSE @,
        !.register_tbe = IF @ = "absent" THEN mod.register_tbe ELSE @]

\* line 532: the sharder's own dict when it is truthy, a new dict otherwise
Working(sh) == IF Truthy(sh.fused_params) THEN sh.fused_params.val ELSE EmptyParams

\* shard(module, params, env, device): the sharder after the call and the
\* fused_params the sharded module is constructed with
shard(sh, mod) ==
    [sharder |-> [sh EXCEPT
                    !.fused_params = IF Truthy(@) THEN Some(Filled(@.val, mod)) ELSE @,
                    !.passed = Filled(Working(sh), mod)],
     fused_params |-> [quant_state_dict_split_scale_bias |->
                          Filled(Working(sh), mod).split_scale_bias = "True"]]

(***************************************************************************)
(* The batches a caller submits.                                           *)
(***************************************************************************)
Stride == Cardinality(Examples)

\* the two batches of the repository's sharding test
TestBatches ==
    {KJT(FeatureNames, 3, <<2, 0, 1, 2, 0, 1>>, <<0, 1, 2, 0, 1, 2>>),
     KJT(FeatureNames, 3, <<2, 2, 4, 2, 0, 1>>, <<3, 2, 1, 2, 0, 1, 2, 3, 2, 3, 2>>)}

\* every batch of Stride examples with at most MaxValues ids
Contents ==
    UNION {
        {KJT(FeatureNames, Stride, lengths, values) :
            values \in [1 .. SumSeq(lengths) -> 0 .. (NumEmbeddings - 1)]} :
        lengths \in {l \in [1 .. (NumTables * Stride) -> 0 .. MaxValues] :
                        SumSeq(l) <= MaxValues}}

\* the keys a caller passes: some of the features, in some order
Presentations ==
    {p \in UNION {[1 .. n -> 1 .. NumTables] : n \in 0 .. NumTables} :
        \A i, j \in DOMAIN p : i # j => p[i] # p[j]}

KeyOrders == {p \in Presentations : Len(p) = NumTables}

Present(b, p) == permute(b, [j \in DOMAIN p |-> p[j] - 1])

(***************************************************************************)
(* The calls.                                                              *)
(***************************************************************************)
vars == <<sharder, module, table_name_to_parameter_sharding, fused_params, self, inputs, call>>

NoBatch == KJT(<<>>, 0, <<>>, <<>>)

\* what a call found: the routing metadata and the distributors before it ran
Before(obj) ==
    [feature_splits |-> obj.feature_splits,
     features_order |-> obj.features_order,
     has_uninitialized_input_dist |-> obj.has_uninitialized_input_dist,
     has_uninitialized_output_dist |-> obj.has_uninitialized_output_dist,
     input_dists |-> Len(obj.input_dists),
     output_dists |-> Len(obj.output_dists)]

NoCall ==
    [op |-> "none", features |-> NoBatch, err |-> "none", dist_err |-> "none",
     ctx_in |-> <<>>, ctx |-> <<>>, ret |-> <<>>, dict |-> EmptyDict, used |-> <<>>,
     pre |-> Before(Unconstructed), repeat |-> FALSE]

\* no sharder: the module is constructed directly
NoSharder == [given |-> None, fused_params |-> None, passed |-> EmptyParams]

InitArgs ==
    /\ module \in [need_indices : BOOLEAN]
    /\ table_name_to_parameter_sharding \in Plans
    /\ self = Unconstructed
    /\ call = NoCall

Init ==
    /\ InitArgs
    /\ sharder = NoSharder
    /\ fused_params \in [quant_state_dict_split_scale_bias : BOOLEAN]
    /\ inputs \in {{b} : b \in TestBatches}

InitData ==
    /\ InitArgs
    /\ sharder = NoSharder
    /\ fused_params \in [quant_state_dict_split_scale_bias : {TRUE}]
    /\ inputs \in {{b} : b \in Contents}

Construct ==
    /\ self.state = "unconstructed"
    /\ self' = init(module, table_name_to_parameter_sharding, fused_params)
    /\ UNCHANGED <<sharder, module, table_name_to_parameter_sharding, fused_params, inputs, call>>

\* a call that finds the input distributors uninitialized creates them
MayCall ==
    /\ self.state = "constructed"
    /\ self.has_uninitialized_input_dist => Len(self.input_dists) < MaxInputDists

Forwarded(features, r) ==
    /\ self' = r.self
    /\ call' = [op |-> "forward", features |-> features, err |-> r.err,
                dist_err |-> r.dist_err, ctx_in |-> r.ctx_in, ctx |-> r.ctx, ret |-> <<>>,
                dict |-> r.dict, used |-> r.used, pre |-> Before(self),
                repeat |-> call.op = "forward" /\ call.features.keys = features.keys]

Forward(features) ==
    /\ MayCall
    /\ Forwarded(features, forward(self, features))
    /\ UNCHANGED <<sharder, module, table_name_to_parameter_sharding, fused_params, inputs>>

InputDisted(features, ctx, r) ==
    /\ self' = r.self
    /\ call' = [op |-> "input_dist", features |-> features, err |-> r.err,
                dist_err |-> r.err, ctx_in |-> ctx, ctx |-> r.ctx, ret |-> r.ret,
                dict |-> EmptyDict, used |-> <<>>, pre |-> Before(self), repeat |-> FALSE]

\* input_dist called by itself, with a new context or the one of the call before
InputDist(features, reuse) ==
    /\ MayCall
    /\ reuse => call.op = "input_dist" /\ Len(call.ctx) <= NumTables
    /\ InputDisted(features, IF reuse THEN call.ctx ELSE create_context,
                   input_dist(self, IF reuse THEN call.ctx ELSE create_context, features))
    /\ UNCHANGED <<sharder, module, table_name_to_parameter_sharding, fused_params, inputs>>

ComputedAndOutputDisted(ctx, r) ==
    call' = [op |-> "compute_and_output_dist", features |-> call.features,
             err |-> r.err, dist_err |-> "none", ctx_in |-> ctx, ctx |-> ctx,
             ret |-> call.ret,
             dict |-> r.dict, used |-> r.used, pre |-> Before(self), repeat |-> FALSE]

\* a context as the call before left it, but without any unbucketize permutation
WithoutPermutation(ctx) ==
    [i \in DOMAIN ctx |-> [ctx[i] EXCEPT !.unbucketize_permute_tensor = None]]

\* the contexts a caller passes: a new one, the one of the call before, or
\* that one with its permutations missing
CallerContexts == {create_context, call.ctx, WithoutPermutation(call.ctx)}

\* compute_and_output_dist called by itself on the result of an input_dist
ComputeAndOutputDist(ctx) ==
    /\ self.state = "constructed"
    /\ call.op = "input_dist" /\ call.err = "none"
    /\ ComputedAndOutputDisted(ctx, compute_and_output_dist(self, ctx, call.ret))
    /\ UNCHANGED <<sharder, module, table_name_to_parameter_sharding, fused_params, self, inputs>>

Copy ==
    /\ self.state = "constructed"
    /\ self' = copy(self)
    /\ call' = [NoCall EXCEPT !.op = "copy", !.pre = Before(self)]
    /\ UNCHANGED <<sharder, module, table_name_to_parameter_sharding, fused_params, inputs>>

Sharded(mod, plan, r) ==
    /\ sharder' = r.sharder
    /\ module' = mod
    /\ table_name_to_parameter_sharding' = plan
    /\ fused_params' = r.fused_params
    /\ self' = init(mod, plan, r.fused_params)
    /\ call' = [NoCall EXCEPT !.op = "shard"]
    /\ UNCHANGED inputs

\* sharder.shard(module, params, env)
Shard(mod, plan) == Sharded(mod, plan, shard(sharder, mod))

Next ==
    \/ Construct
    \/ \E b \in inputs, p \in Presentations : Forward(Present(b, p))
    \/ \E b \in inputs, p \in Presentations, reuse \in BOOLEAN : InputDist(Present(b, p), reuse)
    \/ \E ctx \in CallerContexts : ComputeAndOutputDist(ctx)
    \/ Copy

Spec == Init /\ [][Next]_vars

NextData ==
    \/ Construct
    \/ \E b \in inputs, p \in KeyOrders : Forward(Present(b, p))

SpecData == InitData /\ [][NextData]_vars

\* the fused_params a sharder is constructed with
GivenParams ==
    {None} \cup {Some(d) : d \in [split_scale_bias : Flags \cup {"absent"},
                                  register_tbe : Flags \cup {"absent"},
                                  output_dtype : {"absent"},
                                  other : {"absent", "set"}]}

\* the modules handed to shard
Modules ==
    [need_indices : {FALSE}, split_scale_bias : Flags, register_tbe : Flags,
     output_dtype : DTypes]

InitShard ==
    /\ sharder \in {[given |-> g, fused_params |-> g, passed |-> EmptyParams] : g \in GivenParams}
    /\ module = [need_indices |-> FALSE, split_scale_bias |-> "False",
                 register_tbe |-> "False", output_dtype |-> "fp32"]
    /\ table_name_to_parameter_sharding = [t \in 1 .. NumTables |-> [sharding_type |-> TABLE_WISE, rank |-> 0]]
    /\ fused_params = [quant_state_dict_split_scale_bias |-> FALSE]
    /\ self = Unconstructed
    /\ inputs = {}
    /\ call = NoCall

NextShard == \E mod \in Modules, plan \in Plans : Shard(mod, plan)

SpecShard == InitShard /\ [][NextShard]_vars

(***************************************************************************)
(* What the properties speak of.                                           *)
(***************************************************************************)
\* the ids and the lengths a batch holds for a key, [] when it lacks the key
ValuesOfKey(b, key) ==
    IF key \in Range(b.keys) THEN KeyValues(b, IndexOf(b.keys, key) + 1) ELSE <<>>

LengthsOfKey(b, key) ==
    IF key \in Range(b.keys) THEN KeyLengths(b, IndexOf(b.keys, key) + 1) ELSE <<>>

\* the rows of an unsharded table for a sequence of ids
Rows(t, ids) == [j \in DOMAIN ids |-> Weight(t, ids[j])]

Returned == call.op = "forward" /\ call.err = "none"

IsRw(e) == e.unbucketize_permute_tensor.some

\* C1: for every batch holding all the module's features and every supported
\* plan, forward returns, for each feature, the rows the unsharded table
\* holds for that feature's ids, in the batch's order, with its lengths.
C1_RoundTrip ==
    (call.op = "forward" /\ Len(call.features.keys) = NumTables) =>
        /\ call.err = "none"
        /\ \A t \in 1 .. NumTables :
              /\ FeatureNames[t] \in DOMAIN call.dict
              /\ call.dict[FeatureNames[t]].values
                    = Rows(t, ValuesOfKey(call.features, FeatureNames[t]))
              /\ call.dict[FeatureNames[t]].lengths
                    = LengthsOfKey(call.features, FeatureNames[t])

\* the round trip on a first call to a module whose plan has one strategy
RoundTripOneStrategy ==
    (call.op = "forward" /\ call.pre.has_uninitialized_input_dist
        /\ Len(self.sharding_type_to_sharding) = 1) => C1_RoundTrip

\* the keys a row-wise strategy was handed, in its order
RwKeys(e) == e.features[1].keys

UnpermutedBy(e) ==
    \A p \in DOMAIN e.unbucketize_permute_tensor.val : e.unbucketize_permute_tensor.val[p] = p - 1

\* C2: in what forward returns for a row-wise strategy, the j-th row of a
\* key is the row that was looked up for the j-th id the batch holds for
\* that key, whatever destination the id was bucketed to.
C2_RowWiseOrder ==
    Returned =>
        \A i \in DOMAIN call.ctx : IsRw(call.ctx[i]) =>
            \A q \in DOMAIN RwKeys(call.ctx[i]) :
                call.dict[RwKeys(call.ctx[i])[q]].values
                    = Rows(self.sharding_type_to_sharding[i].tables[q],
                           ValuesOfKey(call.features, RwKeys(call.ctx[i])[q]))

\* a row-wise strategy returned a batch whose ids were reordered by bucketing
C2_Witness ==
    /\ Returned
    /\ \E i \in DOMAIN call.ctx : IsRw(call.ctx[i]) /\ ~UnpermutedBy(call.ctx[i])

Zeros(n) == [e \in 1 .. n |-> 0]

\* C8: for every key of the mapping forward returns, lengths has one entry
\* per example of the batch and the entries sum to the number of rows.
C8_LengthInvariant ==
    Returned =>
        \A key \in DOMAIN call.dict :
            /\ Len(call.dict[key].lengths) = call.features.stride
            /\ SumSeq(call.dict[key].lengths) = Len(call.dict[key].values)

\* a returned mapping with every feature, one of them with several rows and
\* an example without any
C8_Witness ==
    /\ Returned
    /\ Cardinality(DOMAIN call.dict) = NumTables
    /\ \E key \in DOMAIN call.dict :
          /\ Len(call.dict[key].values) >= 2
          /\ \E e \in DOMAIN call.dict[key].lengths : call.dict[key].lengths[e] = 0

\* C9: when the collection does not need indices every returned key has no
\* weights; when it does, the weights of a key are the ids the batch holds
\* for that key, in the batch's order, one per row.
C9_IndicesMode ==
    Returned =>
        \A key \in DOMAIN call.dict :
            IF self.need_indices
            THEN /\ call.dict[key].weights.some
                 /\ call.dict[key].weights.val = ValuesOfKey(call.features, key)
                 /\ Len(call.dict[key].weights.val) = Len(call.dict[key].values)
            ELSE call.dict[key].weights = None

\* indices are needed and a row-wise strategy returned ids that bucketing
\* had reordered and made block-local
C9_Witness ==
    /\ Returned
    /\ self.need_indices
    /\ \E i \in DOMAIN call.ctx :
          /\ IsRw(call.ctx[i])
          /\ ~UnpermutedBy(call.ctx[i])
          /\ \E k \in DOMAIN call.ctx[i].features :
                call.ctx[i].features[k].values
                    # ValuesOfKey(call.features, RwKeys(call.ctx[i])[1])

\* C10: when the batch holds no id for a key, so that every destination
\* receives none for it, forward completes and returns the key with no
\* rows and a zero length for every example.
C10_EmptyDestination ==
    (call.op = "forward" /\ Len(call.features.keys) = NumTables) =>
        \A key \in Range(call.features.keys) :
            ValuesOfKey(call.features, key) = <<>> =>
                /\ call.err = "none"
                /\ key \in DOMAIN call.dict
                /\ call.dict[key].values = <<>>
                /\ call.dict[key].lengths = Zeros(call.features.stride)

\* the same on a first call to a module whose plan has one strategy
EmptyDestinationOneStrategy ==
    (call.op = "forward" /\ call.pre.has_uninitialized_input_dist
        /\ Len(self.sharding_type_to_sharding) = 1) => C10_EmptyDestination

NumStrategies == Len(self.sharding_type_to_sharding)

\* C3: after every input_dist or forward call the module holds exactly one
\* input distributor and one output distributor per strategy, and a call to
\* a module that already holds distributors creates none.
C3_InitOnce ==
    call.op \in {"forward", "input_dist"} =>
        /\ Len(self.input_dists) = NumStrategies
        /\ Len(self.output_dists) = NumStrategies
        /\ call.pre.input_dists > 0 => Len(self.input_dists) = call.pre.input_dists

\* C4: a call with the same keys as the call before it, or any call to a
\* module whose input distributors are initialized, leaves _features_order
\* and _feature_splits as they were.
C4_IdempotentInit ==
    (/\ call.op \in {"forward", "input_dist"}
     /\ call.repeat \/ ~call.pre.has_uninitialized_input_dist) =>
        /\ self.feature_splits = call.pre.feature_splits
        /\ self.features_order = call.pre.features_order

\* forward was called twice running with the same keys, in an order the
\* module has to permute, and returned
C4_Witness ==
    /\ call.op = "forward" /\ call.repeat /\ call.err = "none"
    /\ ~call.pre.has_uninitialized_input_dist
    /\ self.features_order # <<>>

\* C5: compute_and_output_dist with a context whose number of entries is
\* not the number of strategies fails an assertion.
C5_AssertOnMismatch ==
    (call.op = "compute_and_output_dist" /\ Len(call.ctx_in) # NumStrategies) =>
        call.err = "AssertionError"

Supported(plan) ==
    \A t \in DOMAIN plan : plan[t].sharding_type \in {TABLE_WISE, ROW_WISE}

\* C6: construction fails with a ValueError when the plan has an unsupported
\* sharding type, whatever else it has; otherwise it does not, and it builds
\* one strategy per sharding type of the plan, holding that type's tables.
C6_UnsupportedType ==
    self.state # "unconstructed" =>
        IF ~Supported(table_name_to_parameter_sharding)
        THEN /\ self.state = "failed"
             /\ self.init_error = "ValueError"
             /\ self.sharding_type_to_sharding = <<>>
        ELSE /\ self.init_error # "ValueError"
             /\ \A t \in DOMAIN table_name_to_parameter_sharding :
                   \E k \in DOMAIN self.sharding_type_to_sharding :
                      /\ self.sharding_type_to_sharding[k].sharding_type
                            = table_name_to_parameter_sharding[t].sharding_type
                      /\ t \in Range(self.sharding_type_to_sharding[k].tables)
                      /\ \A l \in DOMAIN self.sharding_type_to_sharding :
                            self.sharding_type_to_sharding[l].sharding_type
                               = self.sharding_type_to_sharding[k].sharding_type => l = k

\* construction failed on a plan with a supported and an unsupported type
C6_Witness ==
    /\ self.state = "failed" /\ self.init_error = "ValueError"
    /\ \E t \in DOMAIN table_name_to_parameter_sharding :
          table_name_to_parameter_sharding[t].sharding_type = ROW_WISE

\* the keys a context entry's distributed features hold
KeysOfEntry(e) ==
    IF IsRw(e) THEN RwKeys(e) ELSE Flatten([k \in DOMAIN e.features |-> e.features[k].keys])

\* the number of ids the ranks of an entry hold for a key
IdsHeld(e, key) == SumSeq([k \in DOMAIN e.features |-> Len(ValuesOfKey(e.features[k], key))])

\* a context entry of strategy sh that was built from batch b
EntryFrom(e, sh, b) ==
    /\ IsRw(e) = (sh.sharding_type = ROW_WISE)
    /\ Len(e.features) = WorldSize
    /\ Len(KeysOfEntry(e)) = Len(feature_names(sh))
    /\ \A key \in Range(e.features_before_input_dist.keys) :
          /\ key \in Range(b.keys)
          /\ ValuesOfKey(e.features_before_input_dist, key) = ValuesOfKey(b, key)
          /\ LengthsOfKey(e.features_before_input_dist, key) = LengthsOfKey(b, key)
    /\ \A key \in Range(KeysOfEntry(e)) :
          /\ key \in Range(b.keys)
          /\ IdsHeld(e, key) = Len(ValuesOfKey(b, key))

\* C7: every forward call starts from an empty context, and once its
\* input_dist has returned the context holds one entry per strategy, in
\* strategy order, each built from the batch of this call.
C7_FreshContext ==
    call.op = "forward" =>
        /\ call.ctx_in = <<>>
        /\ call.dist_err = "none" =>
              /\ Len(call.ctx) = NumStrategies
              /\ \A i \in DOMAIN call.ctx :
                    EntryFrom(call.ctx[i], self.sharding_type_to_sharding[i], call.features)

\* a forward pass over two strategies that follows a call with other keys
C7_Witness ==
    /\ call.op = "forward" /\ call.dist_err = "none"
    /\ ~call.pre.has_uninitialized_input_dist /\ ~call.repeat
    /\ NumStrategies = 2 /\ Len(call.ctx) = 2

\* C11: when compute_and_output_dist is given a context in which the entry
\* of a row-wise strategy holds no unbucketize permutation, it fails an
\* assertion instead of returning a mapping.
C11_MissingPermutation ==
    (/\ call.op = "compute_and_output_dist"
     /\ \E i \in 1 .. Min(Len(call.ctx_in), NumStrategies) :
           /\ self.sharding_type_to_sharding[i].sharding_type = ROW_WISE
           /\ ~IsRw(call.ctx_in[i])) =>
        call.err = "AssertionError"

FlagUnset == ~fused_params.quant_state_dict_split_scale_bias

OnlyTableWise(plan) == \A t \in DOMAIN plan : plan[t].sharding_type = TABLE_WISE

\* C12 as stated: with quant_state_dict_split_scale_bias not set,
\* construction fails an assertion whenever the plan has a sharding type
\* other than table-wise, and with only table-wise it succeeds and
\* embeddings has an entry for every table.
C12_AssertionWheneverNotTableWise ==
    (self.state # "unconstructed" /\ FlagUnset) =>
        IF ~OnlyTableWise(table_name_to_parameter_sharding)
        THEN self.state = "failed" /\ self.init_error = "AssertionError"
        ELSE self.state = "constructed" /\ self.embeddings = Range(TableNames)

\* C12 as amended: with the flag not set, construction fails whenever the
\* plan has a type other than table-wise -- by the unsupported-type
\* ValueError when a type is neither table-wise nor row-wise, which is
\* raised before the assertion is reached, and by the assertion otherwise;
\* with only table-wise it succeeds and embeddings has every table.
C12_FlagAssertion ==
    (self.state # "unconstructed" /\ FlagUnset) =>
        IF ~Supported(table_name_to_parameter_sharding)
        THEN self.state = "failed" /\ self.init_error = "ValueError"
        ELSE IF ~OnlyTableWise(table_name_to_parameter_sharding)
        THEN self.state = "failed" /\ self.init_error = "AssertionError"
        ELSE /\ self.state = "constructed" /\ self.init_error = "none"
             /\ self.embeddings = Range(TableNames)

\* construction failed the assertion on a plan with table-wise and row-wise
C12_Witness ==
    /\ FlagUnset
    /\ self.state = "failed" /\ self.init_error = "AssertionError"
    /\ \E t \in DOMAIN table_name_to_parameter_sharding :
          table_name_to_parameter_sharding[t].sharding_type = TABLE_WISE

\* the context entry the call appended for its i-th strategy
NewEntry(i) == call.ctx[Len(call.ctx_in) + i]

\* C13: on every input_dist or forward call whose batch holds all the owned
\* features, in whatever key order, input_dist returns, the collection it
\* hands to the i-th strategy's input distributor has the keys of
\* strategy.feature_names() in that order, and the split sizes sum to the
\* number of owned features.
C13_CanonicalOrder ==
    (/\ call.op \in {"forward", "input_dist"}
     /\ Range(FeatureNames) \subseteq Range(call.features.keys)) =>
        /\ call.dist_err = "none"
        /\ Len(call.ctx) = Len(call.ctx_in) + NumStrategies
        /\ \A i \in 1 .. NumStrategies :
              KeysOfEntry(NewEntry(i)) = feature_names(self.sharding_type_to_sharding[i])
        /\ SumSeq(self.feature_splits) = NumTables

\* the same on the call that initializes the input distributors
CanonicalOrderFirstCall ==
    call.pre.has_uninitialized_input_dist => C13_CanonicalOrder

\* C14: once input_dist has returned in a forward call, the
\* features_before_input_dist of each strategy's context entry holds the keys
\* of the collection handed to that strategy and no other, so that forward,
\* when the batch holds all owned features, returns each of them once.
C14_RestrictedBefore ==
    (call.op = "forward" /\ call.dist_err = "none") =>
        /\ \A i \in DOMAIN call.ctx :
              call.ctx[i].features_before_input_dist.keys = KeysOfEntry(call.ctx[i])
        /\ Len(call.features.keys) = NumTables =>
              /\ call.err = "none"
              /\ DOMAIN call.dict = Range(FeatureNames)

\* C15: in every state of a constructed module, whatever calls were made
\* and whether they failed, the module holds no input distributor while it is
\* uninitialized and exactly one per strategy once it is initialized.
C15_FailureAtomicity ==
    self.state = "constructed" =>
        IF self.has_uninitialized_input_dist
        THEN Len(self.input_dists) = 0
        ELSE Len(self.input_dists) = NumStrategies

FlagFor(given, own) ==
    IF sharder.given.some /\ given # "absent" THEN given ELSE own

\* C17: the module shard constructs gets each flag from the fused_params the
\* sharder was given when they hold it and from the module being sharded
\* otherwise, whatever modules were sharded before, and the sharder's
\* fused_params stay as given.
C17_ShardLeavesParams ==
    call.op = "shard" =>
        /\ sharder.passed.split_scale_bias
              = FlagFor(sharder.given.val.split_scale_bias, module.split_scale_bias)
        /\ sharder.passed.register_tbe
              = FlagFor(sharder.given.val.register_tbe, module.register_tbe)
        /\ sharder.fused_params = sharder.given

\* the flags alone, whatever shard does to the sharder's fused_params
FlagsFromModule ==
    call.op = "shard" =>
        /\ sharder.passed.split_scale_bias
              = FlagFor(sharder.given.val.split_scale_bias, module.split_scale_bias)
        /\ sharder.passed.register_tbe
              = FlagFor(sharder.given.val.register_tbe, module.register_tbe)

\* C18: whenever output_dist reassembles strategies, the i-th one is
\* reassembled with the unbucketize permutation of the i-th entry of the
\* context it was given, by the row-wise path, when that entry holds one,
\* and without any, by the table-wise path, when it holds none.
C18_OwnPermutation ==
    call.op \in {"forward", "compute_and_output_dist"} =>
        /\ Len(call.used) <= Len(call.ctx)
        /\ \A i \in DOMAIN call.used :
              call.used[i] = call.ctx[i].unbucketize_permute_tensor
        /\ call.err = "none" =>
              Len(call.used) = Min(Len(call.ctx), NumStrategies)

\* a row-wise strategy with a permutation of several ids was reassembled
\* before a table-wise one
C18_Witness ==
    /\ call.op \in {"forward", "compute_and_output_dist"}
    /\ Len(call.used) = 2
    /\ call.used[1].some /\ Len(call.used[1].val) >= 2
    /\ ~call.used[2].some

=============================================================================
